---- MODULE Spec2Model ----
(***************************************************************************)
(* Model of the price tracker's polling pass: the item store of the        *)
(* tracker process (main.py ProductManager), the polling loop              *)
(* (PriceTracker.check_all_products), the price-drop decision              *)
(* (TrackerManager.check_price_drop) and the Amazon extraction             *)
(* orchestrator (AmazonPriceTracker.get_product_info).                     *)
(*                                                                         *)
(* Conventions.  Python None is the empty sequence <<>> for optional       *)
(* numbers (a present number p is <<p>>) and the string "None" for         *)
(* optional strings.  Prices are whole rupees.  A URL is a record of its   *)
(* host labels (split at "."), its path segments (split at "/") and its    *)
(* query pairs; "x in s" on strings is containment of a contiguous run of  *)
(* labels or segments.                                                     *)
(***************************************************************************)
EXTENDS Integers, Sequences, FiniteSets, TLC

\* ---------------------------------------------------------------- bounds
MaxItems  == 2      \* tracked items in the store
MaxPrice  == 2      \* largest price a page can show
MaxTarget == 2      \* largest target price a user sets
MaxSessions == 3    \* browser sessions started in one run
MaxElements == 2    \* price elements on a page
MaxTextLen == 3     \* characters of a price text after its currency prefix
MaxFileLen == 2     \* bytes of a serialised products.json

\* ------------------------------------------------------------- constants
ApiEndpointCount == 4
ADMIN_USER_ID == 1  \* the configured admin of the bot
DriverSlots == 1    \* the tracker keeps one browser session, self.driver
PriceSelectorCount == 7     \* price_selectors of the browser strategy

NoneNum == <<>>
NoneStr == "None"
Some(n) == <<n>>
Val(o)  == o[1]

Ids     == 1..MaxItems
Prices  == 0..MaxPrice
Targets == 0..MaxTarget

\* ------------------------------------------------------------------ URLs
UrlProduct == [netloc |-> <<"www", "amazon", "in">>,
               path   |-> <<"dp", "B0ABCDEFGH">>,
               query  |-> <<>>]
UrlShort   == [netloc |-> <<"amzn", "in">>,
               path   |-> <<"d", "abc">>,
               query  |-> <<>>]
UrlCart    == [netloc |-> <<"www", "amazon", "in">>,
               path   |-> <<"gp", "cart">>,
               query  |-> <<>>]
UrlLanding == [netloc |-> <<"www", "amazon", "in">>,
               path   |-> <<"errors", "validatecaptcha">>,
               query  |-> <<>>]

\* a URL outside Amazon
UrlOther == [netloc |-> <<"example", "com">>,
             path   |-> <<"dp", "B0ABCDEFGH">>,
             query  |-> <<>>]

\* a product path on a host that has an Amazon domain inside another domain
UrlLookalike == [netloc |-> <<"www", "amazon", "in", "example", "com">>,
                 path   |-> <<"dp", "B0ABCDEFGH">>,
                 query  |-> <<>>]

StoredUrls   == {UrlProduct, UrlShort, UrlCart}
AsinTokens   == {"B0ABCDEFGH"}

\* s contains the contiguous run sub
Contains(s, sub) ==
    \E i \in 0..(Len(s) - Len(sub)) :
        \A j \in 1..Len(sub) : s[i + j] = sub[j]

\* "/a/b/" in path: the segments a, b in a row, followed by a further "/"
PathHas(path, segs) ==
    \E i \in 0..(Len(path) - Len(segs) - 1) :
        \A j \in 1..Len(segs) : path[i + j] = segs[j]

\* path.endswith("/a/b")
PathEndsWith(path, segs) ==
    /\ Len(path) >= Len(segs)
    /\ \A j \in 1..Len(segs) : path[Len(path) - Len(segs) + j] = segs[j]

\* path.startswith("/a/")
PathStartsWith(path, seg) == Len(path) >= 2 /\ path[1] = seg

AMAZON_DOMAINS == { <<"amazon", "com">>, <<"www", "amazon", "com">>,
                    <<"amazon", "in">>,  <<"www", "amazon", "in">>,
                    <<"amzn", "com">>,   <<"www", "amzn", "com">>,
                    <<"amzn", "in">>,    <<"www", "amzn", "in">> }

\* the validity test left out: every URL goes on to the strategies
is_valid_url_Any(url) == TRUE

is_valid_url(url) ==
    LET domain == url.netloc
        is_amazon_domain == \E d \in AMAZON_DOMAINS : Contains(domain, d)
        short == /\ domain \in { <<"amzn", "in">>, <<"amzn", "com">> }
                 /\ \E s \in {"d", "dp", "gp"} : PathStartsWith(url.path, s)
        is_product_path ==
            \/ PathHas(url.path, <<"dp">>)
            \/ PathHas(url.path, <<"gp", "product">>)
            \/ PathHas(url.path, <<"d">>)
            \/ PathHas(url.path, <<"product">>)
        is_excluded ==
            \/ PathEndsWith(url.path, <<"cart">>)
            \/ PathEndsWith(url.path, <<"wishlist">>)
            \/ PathEndsWith(url.path, <<"account", "login">>)
            \/ PathEndsWith(url.path, <<"account", "register">>)
            \/ PathEndsWith(url.path, <<"checkout">>)
    IN  IF ~is_amazon_domain
            /\ ~(Contains(domain, <<"amzn", "in">>) \/ Contains(domain, <<"amzn", "com">>))
        THEN FALSE
        ELSE IF short THEN TRUE
        ELSE is_product_path /\ ~is_excluded

\* the ASIN in the segment after the run of segments pre, when "/" or the
\* end of the URL follows it
AsinAfter(url, pre) ==
    { url.path[i + Len(pre) + 1] : i \in
        { k \in 0..(Len(url.path) - Len(pre) - 1) :
            /\ \A j \in 1..Len(pre) : url.path[k + j] = pre[j]
            /\ url.path[k + Len(pre) + 1] \in AsinTokens
            /\ (k + Len(pre) + 1 < Len(url.path) \/ url.query = <<>>) } }

AsinInQuery(url) ==
    { url.query[i][2] : i \in
        { k \in 1..Len(url.query) :
            url.query[k][1] = "asin" /\ url.query[k][2] \in AsinTokens } }

\* the ASIN after /dp/, /gp/product/, /product/ or /ASIN/, else the value of
\* asin= in the query, else None
_extract_asin(url) ==
    LET found == AsinAfter(url, <<"dp">>) \cup AsinAfter(url, <<"gp", "product">>)
                 \cup AsinAfter(url, <<"product">>) \cup AsinAfter(url, <<"ASIN">>)
                 \cup AsinInQuery(url)
    IN  IF found = {} THEN NoneStr ELSE CHOOSE a \in found : TRUE

CanonicalUrl(asin) == [netloc |-> <<"www", "amazon", "in">>,
                       path   |-> <<"dp", asin>>,
                       query  |-> <<>>]

\* "amzn.in" in url or "amzn.com" in url
IsShortUrl(url) ==
    Contains(url.netloc, <<"amzn", "in">>) \/ Contains(url.netloc, <<"amzn", "com">>)

\* what a short link can settle on: the product page, or a page with no ASIN
ResolvedUrls == {UrlProduct, UrlLanding}

\* the URLs normalize_url can return for url
normalize_url(url) ==
    LET asin == _extract_asin(url)
        plain == IF asin # NoneStr THEN CanonicalUrl(asin) ELSE url
    IN  IF IsShortUrl(url) THEN ResolvedUrls \cup {plain} ELSE {plain}


\* ------------------------------------------------------------ the store
\* Product (product_manager.py): the fields the polling pass reads or writes
StoreTypeEnum == "StoreType.AMAZON"
StoreTypeStr  == "amazon"

NewProduct(i, u, t) ==
    [id |-> i, url |-> u, target_price |-> t, title |-> NoneStr,
     current_price |-> NoneNum, coupon |-> NoneStr, store_type |-> StoreTypeEnum]

\* Product.to_dict: the enum becomes its string value
to_dict(p) == [p EXCEPT !.store_type = StoreTypeStr]

Truthy(str) == str # NoneStr /\ str # ""

\* --------------------------------------------------- extraction outcomes
\* the order with the alternate endpoints put before the browser
StrategyOrder_ApiFirst == <<"api1", "api2", "api3", "api4", "selenium">>

\* the strategies in the order get_product_info tries them: the browser,
\* then the alternate endpoints in the order of the api_endpoints list
StrategyOrder == <<"selenium", "api1", "api2", "api3", "api4">>

ApiName(k) == StrategyOrder[k + 1]

UnknownTitle == "Unknown Product"
PageTitles   == {"Page Title", UnknownTitle}

NoInfo == [title |-> NoneStr, price |-> NoneNum, in_stock |-> TRUE,
           coupon |-> NoneStr, url |-> UrlProduct]

\* what the browser strategy can meet: the browser cannot be started
\* ("nostart": _setup_browser raises), the navigation raises, or a page is
\* loaded (a challenge page or not) and read
SeleniumOutcomes ==
    [kind : {"nostart", "exception"}, captcha : {FALSE}, title : {NoneStr},
     price : {0}, unavailable : {FALSE}]
    \cup [kind : {"page"}, captcha : BOOLEAN, title : PageTitles,
          price : Prices, unavailable : BOOLEAN]

\* what one alternate endpoint can answer: the request raises, a 5xx or
\* another non-200 status, or a 200 page with or without a title element
ApiOutcomes ==
    [kind : {"exception", "status5xx", "status4xx"}, title : {NoneStr}, price : {0}]
    \cup [kind : {"page"}, title : {NoneStr}, price : {0}]
    \cup [kind : {"page"}, title : {"Page Title"}, price : Prices]

ErrInvalidUrl == "Invalid Amazon product URL"
ErrExhausted  == "Failed to get product info after exhausting all methods"
ErrAttribute  == "'str' object has no attribute 'value'"
ErrNone       == NoneStr

\* what the last strategy tried by a get_product_info call met (o), and
\* whether the strategy returned it (ok)
Attempt(strategy, o, ok, captcha) ==
    [strategy |-> strategy, kind |-> o.kind, title |-> o.title,
     price |-> o.price, captcha |-> captcha, ok |-> ok]

NoAttempt == [strategy |-> NoneStr, kind |-> "none", title |-> NoneStr,
              price |-> 0, captcha |-> FALSE, ok |-> FALSE]

\* a get_product_info call: the strategies tried so far, in order, what the
\* last of them met, and how the call ended
NoExtraction == [status |-> "none", url |-> UrlProduct, tried |-> <<>>,
                 last |-> NoAttempt, info |-> NoInfo, error |-> ErrNone,
                 apiIdx |-> 0]

\* a finished cycle: how the extraction ended, what check_price_drop
\* decided, whether the observed state was stored, the notifications sent
NoCycle == [id |-> 0, extStatus |-> "none", extError |-> ErrNone,
            price_dropped |-> FALSE, current_price |-> NoneNum,
            title |-> NoneStr, error |-> ErrNone,
            stored |-> FALSE, notes |-> <<>>]

VARIABLES
    products,   \* tracker process: ProductManager.products, id -> Product
    file,       \* products.json as last written by the tracker process
    pc,         \* position of the polling loop
    passIds,    \* check_all_products: the ids of product_list, in its order
    passList,   \* check_all_products: product_list from the current item on
    idx,        \* check_all_products: index of the item being processed
    attempted,  \* ids whose check_price_and_coupon ran in this pass
    ext,        \* AmazonPriceTracker.get_product_info call in progress
    cycle,      \* the last finished cycle: its result, its notifications
    driver,         \* AmazonPriceTracker.driver: 0 (None) or a session
    liveSessions,   \* the browser sessions started and not closed
    created,        \* the number of browser sessions started so far
    bpc,            \* position of a get_product_info call in its browser use
    caller,         \* who called _setup_browser: normalize_url or the strategy
    local_driver,   \* the local variable driver of _setup_browser
    arg,            \* the argument of a function applied on its own
    ret,            \* what the function returned
    products_json,      \* data/products.json, id -> Product
    bot_products,       \* bot process: ProductManager.products
    tracker_products,   \* tracker process: ProductManager.products
    restart_file,       \* whether the file .restart exists
    app,                \* main(): "running" or "down"
    bot_alive,          \* whether the bot process runs
    tpc,                \* tracker process: "dead", "due", "pass" or "wait"
    snapshot,           \* the ids of the pass the tracker process began last
    next_id,            \* the number of products created so far, plus one
    reply,              \* the last reply of the bot
    email_alerts,       \* GLOBAL_EMAIL_ALERTS in config.env
    monitor_exit,       \* main(): why the monitoring loop ended last
    last_update,        \* bot: who sent the last command, and a bit that
                        \* every command handled flips
    names,      \* the data directory: file name -> inode, 0 when absent
    inodes,     \* inode -> the content of the file, a sequence of bytes
    savers      \* process -> where its _save_products call stands

trackVars == <<products, file, pc, passIds, passList, idx, attempted, ext, cycle>>

browserVars == <<driver, liveSessions, created, bpc, caller, local_driver>>

fnVars == <<arg, ret>>

storeVars == <<products_json, bot_products, tracker_products, restart_file,
               app, bot_alive, tpc, snapshot, next_id, reply,
               email_alerts, monitor_exit, last_update>>

saveVars == <<names, inodes, savers>>

\* what the steps of the polling pass leave alone
outsidePass == <<browserVars, fnVars, storeVars, saveVars>>

\* what the steps of the browser use leave alone
outsideBrowser == <<trackVars, fnVars, storeVars, saveVars>>

\* what the application of a function leaves alone
outsideFn == <<trackVars, browserVars, storeVars, saveVars>>

\* what the bot, the supervisor and the tracker process's life leave alone
outsideStore == <<trackVars, browserVars, fnVars, saveVars>>

\* what the steps of a save of products.json leave alone
outsideSave == <<trackVars, browserVars, fnVars, storeVars>>

vars == <<trackVars, browserVars, fnVars, storeVars, saveVars>>

\* no function is being applied on its own
NoArg == [kind |-> "none"]
NoRet == [op |-> "none"]

FnIdle == arg = NoArg /\ ret = NoRet

\* no save is under way: no file in the data directory
SaveIdle ==
    /\ names = [json |-> 0, tmp |-> 0]
    /\ inodes = <<>>
    /\ savers = <<>>

\* the application is not running: no process, an empty products.json
StoreIdle ==
    /\ products_json = <<>>
    /\ bot_products = <<>>
    /\ tracker_products = <<>>
    /\ restart_file = FALSE
    /\ app = "down"
    /\ bot_alive = FALSE
    /\ tpc = "dead"
    /\ snapshot = {}
    /\ next_id = 1
    /\ reply = NoneStr
    /\ email_alerts = TRUE
    /\ monitor_exit = "none"
    /\ last_update = [user |-> 0, seq |-> 0]

\* no get_product_info call uses the browser: a tracker just constructed
BrowserIdle ==
    /\ driver = 0
    /\ liveSessions = {}
    /\ created = 0
    /\ bpc = "idle"
    /\ caller = NoneStr
    /\ local_driver = 0

\* the stores the tracker process starts with: n items added one after the
\* other (add_product), none checked yet.  One item, at any place r, has any
\* of the stored URLs and any target; the others are cart links, which the
\* pattern of the bot's add command accepts and is_valid_url rejects
InitialStores ==
    { [i \in {} |-> NewProduct(i, UrlCart, MaxTarget)] }
    \cup UNION { UNION { { [i \in 1..n |-> IF i = r THEN NewProduct(i, u, t)
                                          ELSE NewProduct(i, UrlCart, MaxTarget)] :
                           u \in StoredUrls, t \in Targets } :
                         r \in 1..n } : n \in 1..MaxItems }

Init ==
    /\ products \in InitialStores
    /\ file = products
    /\ pc = "idle"
    /\ passIds = <<>>
    /\ passList = <<>>
    /\ idx = 0
    /\ attempted = <<>>
    /\ ext = NoExtraction
    /\ cycle = NoCycle
    /\ BrowserIdle
    /\ FnIdle
    /\ StoreIdle
    /\ SaveIdle

\* get_all_products: the values of the dict, in insertion order
get_all_products(ps) == [i \in 1..Cardinality(DOMAIN ps) |-> ps[i]]

\* check_all_products, up to the loop: nothing to do on an empty store,
\* else the snapshot product_list of dicts
StartPass ==
    /\ pc = "idle"
    /\ LET plist == get_all_products(products)
       IN  IF Len(plist) = 0
           THEN /\ pc' = "idle"
                /\ passIds' = <<>>
                /\ passList' = <<>>
                /\ idx' = 0
                /\ attempted' = <<>>
           ELSE /\ passList' = [i \in 1..Len(plist) |-> to_dict(plist[i])]
                /\ passIds' = [i \in 1..Len(plist) |-> plist[i].id]
                /\ idx' = 1
                /\ attempted' = <<>>
                /\ pc' = "item"
    /\ cycle' = NoCycle
    /\ UNCHANGED <<products, file, ext>>
    /\ UNCHANGED outsidePass

\* the loop body up to the first fetch: Product(**product_data),
\* check_price_and_coupon -> check_price_drop -> get_product_info, which
\* validates and normalizes the URL
BeginItem ==
    /\ pc = "item"
    /\ idx <= Len(passIds)
    /\ LET product == Head(passList)
       IN  /\ attempted' = Append(attempted, product.id)
           /\ IF ~is_valid_url(product.url)
              THEN /\ ext' = [NoExtraction EXCEPT !.status = "raised",
                                                  !.url = product.url,
                                                  !.error = ErrInvalidUrl]
                   /\ pc' = "finish"
              ELSE /\ \E u \in normalize_url(product.url) :
                        ext' = [NoExtraction EXCEPT !.status = "running", !.url = u]
                   /\ pc' = "selenium"
    /\ cycle' = NoCycle
    /\ UNCHANGED <<products, file, passIds, passList, idx>>
    /\ UNCHANGED outsidePass

\* the browser strategy: any exception of the browser start or the navigation
\* ends the strategy; a loaded page is read and returned whatever it shows
SeleniumResult(o, url) ==
    [title |-> o.title, price |-> Some(o.price), in_stock |-> ~o.unavailable,
     coupon |-> NoneStr, url |-> url]

\* the browser strategy returning only a page that shows a price
SeleniumSucceeds_NeedsPrice(o) == o.kind = "page" /\ o.price > 0

SeleniumSucceeds(o) == o.kind = "page"

\* the browser started again when it could not be started
AfterSeleniumFailure_Retry(o) == IF o.kind = "nostart" THEN "selenium" ELSE "api"

\* where get_product_info goes on when the browser strategy raised: the
\* except clause logs, the finally clause quits the driver, and the
\* alternate endpoints follow
AfterSeleniumFailure(o) == "api"

TrySelenium ==
    /\ pc = "selenium"
    /\ \E o \in SeleniumOutcomes :
        LET att == Attempt("selenium", o, SeleniumSucceeds(o), o.captcha)
            seq == Append(ext.tried, "selenium")
        IN  IF SeleniumSucceeds(o)
            THEN /\ ext' = [ext EXCEPT !.tried = seq, !.last = att,
                                       !.status = "returned",
                                       !.info = SeleniumResult(o, ext.url)]
                 /\ pc' = "finish"
            ELSE /\ ext' = [ext EXCEPT !.tried = seq, !.last = att, !.apiIdx = 1]
                 /\ pc' = AfterSeleniumFailure(o)
    /\ UNCHANGED <<products, file, passIds, passList, idx, attempted, cycle>>
    /\ UNCHANGED outsidePass

\* _try_api_endpoint, one endpoint: a 200 answer with a title is returned
\* (its price is optional); anything else goes on to the next endpoint
ApiSucceeds(o) == o.kind = "page" /\ Truthy(o.title)

ApiResult(o, url) ==
    [title |-> o.title, price |-> Some(o.price), in_stock |-> TRUE,
     coupon |-> NoneStr, url |-> url]

TryApiEndpoint ==
    /\ pc = "api"
    /\ _extract_asin(ext.url) # NoneStr
    /\ ext.apiIdx <= ApiEndpointCount
    /\ \E o \in ApiOutcomes :
        LET att == Attempt(ApiName(ext.apiIdx), o, ApiSucceeds(o), FALSE)
            seq == Append(ext.tried, ApiName(ext.apiIdx))
        IN  IF ApiSucceeds(o)
            THEN /\ ext' = [ext EXCEPT !.tried = seq, !.last = att,
                                       !.status = "returned",
                                       !.info = ApiResult(o, ext.url)]
                 /\ pc' = "finish"
            ELSE /\ ext' = [ext EXCEPT !.tried = seq, !.last = att,
                                       !.apiIdx = ext.apiIdx + 1]
                 /\ pc' = "api"
    /\ UNCHANGED <<products, file, passIds, passList, idx, attempted, cycle>>
    /\ UNCHANGED outsidePass

\* no ASIN in the URL, or no endpoint left: get_product_info raises
Exhausted ==
    /\ pc = "api"
    /\ (_extract_asin(ext.url) = NoneStr \/ ext.apiIdx > ApiEndpointCount)
    /\ ext' = [ext EXCEPT !.status = "raised", !.error = ErrExhausted]
    /\ pc' = "finish"
    /\ UNCHANGED <<products, file, passIds, passList, idx, attempted, cycle>>
    /\ UNCHANGED outsidePass


\* ------------------------------------------------ the price-drop decision
\* the fallback built whatever the type of product.store_type is
TrackerGetProductInfo_Fallback(product, e) ==
    IF e.status = "returned"
    THEN [raised |-> FALSE, info |-> e.info, error |-> ErrNone]
    ELSE IF Truthy(product.title)
         THEN [raised |-> FALSE,
               info |-> [title |-> product.title, price |-> Some(0),
                         in_stock |-> FALSE, coupon |-> NoneStr,
                         url |-> product.url],
               error |-> ErrNone]
         ELSE [raised |-> TRUE, info |-> NoInfo, error |-> e.error]

\* TrackerManager.get_product_info: the tracker's result, or, when the
\* tracker raised, the fallback record built from the stored title; the
\* fallback reads product.store_type.value, which a string does not have
TrackerGetProductInfo(product, e) ==
    IF e.status = "returned"
    THEN [raised |-> FALSE, info |-> e.info, error |-> ErrNone]
    ELSE IF Truthy(product.title)
         THEN IF product.store_type = StoreTypeEnum
              THEN [raised |-> FALSE,
                    info |-> [title |-> product.title, price |-> Some(0),
                              in_stock |-> FALSE, coupon |-> NoneStr,
                              url |-> product.url],
                    error |-> ErrNone]
              ELSE [raised |-> TRUE, info |-> NoInfo, error |-> ErrAttribute]
         ELSE [raised |-> TRUE, info |-> NoInfo, error |-> e.error]

\* the comparison with a price equal to the target left out
PriceDropped_Strict(current_price, target_price) ==
    /\ current_price # NoneNum
    /\ Val(current_price) > 0
    /\ target_price > 0
    /\ Val(current_price) < target_price

\* the comparison of check_price_drop
PriceDropped(current_price, target_price) ==
    /\ current_price # NoneNum
    /\ Val(current_price) > 0
    /\ target_price > 0
    /\ Val(current_price) <= target_price

check_price_drop(product, e) ==
    LET r == TrackerGetProductInfo(product, e)
    IN  IF r.raised
        THEN [price_dropped |-> FALSE, current_price |-> Some(0),
              previous_price |-> product.current_price, coupon |-> NoneStr,
              title |-> product.title, in_stock |-> FALSE, error |-> r.error]
        ELSE [price_dropped |-> PriceDropped(r.info.price, product.target_price),
              current_price |-> r.info.price,
              previous_price |-> product.current_price,
              coupon |-> r.info.coupon, title |-> r.info.title,
              in_stock |-> r.info.in_stock, error |-> ErrNone]

\* ------------------------------------------------------- notifications
EmailOutcomes    == {"off", "sent", "failed"}
TelegramOutcomes == {"sent", "failed"}

\* _send_price_drop_notification: one e-mail alert when alerts are on, and
\* one chat message; no failure of either leaves the method
PriceDropNote(product, result, email, telegram) ==
    [kind |-> "price_drop", id |-> product.id, price |-> result.current_price,
     email |-> email, telegram |-> telegram]

\* the notification sent whenever a price was observed
SendsPriceDrop_OnPrice(result) == Val(result.current_price) > 0

\* whether check_price_and_coupon sends the price-drop notification
SendsPriceDrop(result) == result.price_dropped

\* a failed delivery of the price-drop notification leaving the method as an
\* exception, which the handlers of check_price_and_coupon turn into {}
check_price_and_coupon_NotifyFatal(product, result, email, telegram) ==
    LET notes == IF SendsPriceDrop(result)
                 THEN << PriceDropNote(product, result, email, telegram) >>
                 ELSE << >>
        couponCall == /\ Truthy(result.coupon)
                      /\ result.coupon # product.coupon
                      /\ ~result.price_dropped
        failed == SendsPriceDrop(result) /\ (email = "failed" \/ telegram = "failed")
    IN  [returned |-> ~couponCall /\ ~failed,
         updates  |-> [current_price |-> result.current_price,
                       title |-> result.title],
         notes    |-> notes]

\* check_price_and_coupon: the updates it returns (returned = FALSE is the
\* empty dict of its exception handlers) and the notifications it sends;
\* _send_coupon_notification is not defined, the call raises AttributeError
check_price_and_coupon(product, result, email, telegram) ==
    LET notes == IF SendsPriceDrop(result)
                 THEN << PriceDropNote(product, result, email, telegram) >>
                 ELSE << >>
        couponCall == /\ Truthy(result.coupon)
                      /\ result.coupon # product.coupon
                      /\ ~result.price_dropped
    IN  [returned |-> ~couponCall,
         updates  |-> [current_price |-> result.current_price,
                       title |-> result.title],
         notes    |-> notes]

\* the values check_all_products passes on: those that are not None
Passed(v, none) == v # none

\* an update that sets the title and leaves the price
update_product_TitleOnly(ps, id, updates) ==
    IF id \in DOMAIN ps
    THEN [ps EXCEPT ![id] =
            [@ EXCEPT !.title = IF Passed(updates.title, NoneStr)
                                THEN updates.title ELSE @]]
    ELSE ps

\* an update that also moves the target to the observed price
update_product_Retarget(ps, id, updates) ==
    IF id \in DOMAIN ps
    THEN [ps EXCEPT ![id] =
            [@ EXCEPT !.current_price = IF Passed(updates.current_price, NoneNum)
                                        THEN updates.current_price ELSE @,
                      !.title = IF Passed(updates.title, NoneStr)
                                THEN updates.title ELSE @,
                      !.target_price = IF Passed(updates.current_price, NoneNum)
                                       THEN Val(updates.current_price) ELSE @]]
    ELSE ps

\* ProductManager.update_product: every passed attribute is set
update_product(ps, id, updates) ==
    IF id \in DOMAIN ps
    THEN [ps EXCEPT ![id] =
            [@ EXCEPT !.current_price = IF Passed(updates.current_price, NoneNum)
                                        THEN updates.current_price ELSE @,
                      !.title = IF Passed(updates.title, NoneStr)
                                THEN updates.title ELSE @]]
    ELSE ps

\* a loop that ends the pass at the first item whose check reports an error
NextIndex_AbortOnError(i, result) ==
    IF result.error # ErrNone THEN MaxItems + 1 ELSE i + 1

\* the index the loop goes on with after the item at i, whatever its check
\* returned or raised
NextIndex(i, result) == i + 1

\* the rest of the loop body, once get_product_info has returned or raised:
\* check_price_drop, the notification, update_product and its save (the
\* write of products.json is taken to succeed)
FinishItem ==
    /\ pc = "finish"
    /\ \E email \in EmailOutcomes, telegram \in TelegramOutcomes :
        LET product == Head(passList)
            result  == check_price_drop(product, ext)
            cpc     == check_price_and_coupon(product, result, email, telegram)
            stored  == cpc.returned /\ product.id \in DOMAIN products
            after   == IF stored
                       THEN update_product(products, product.id, cpc.updates)
                       ELSE products
        IN  /\ (~SendsPriceDrop(result) => email = "off" /\ telegram = "sent")
            /\ products' = after
            /\ file' = IF stored THEN after ELSE file
            /\ cycle' = [id |-> product.id, extStatus |-> ext.status,
                         extError |-> ext.error,
                         price_dropped |-> result.price_dropped,
                         current_price |-> result.current_price,
                         title |-> result.title,
                         error |-> result.error,
                         stored |-> stored, notes |-> cpc.notes]
            /\ idx' = NextIndex(idx, result)
            /\ passList' = SubSeq(passList, NextIndex(idx, result) - idx + 1,
                                   Len(passList))
            /\ pc' = IF NextIndex(idx, result) > Len(passIds) THEN "idle" ELSE "item"
    /\ ext' = NoExtraction
    /\ UNCHANGED <<passIds, attempted>>
    /\ UNCHANGED outsidePass

Next ==
    \/ StartPass
    \/ BeginItem
    \/ TrySelenium
    \/ TryApiEndpoint
    \/ Exhausted
    \/ FinishItem

Spec == Init /\ [][Next]_vars

\* ------------------------------------------------- the browser sessions
\* The browser use of the get_product_info calls of one AmazonPriceTracker,
\* one call after the other: normalize_url resolving a short link,
\* _setup_browser, the navigation, and the finally clause.

\* the store and the polling loop at rest
PassIdle ==
    /\ products = <<>>
    /\ file = products
    /\ pc = "idle"
    /\ passIds = <<>>
    /\ passList = <<>>
    /\ idx = 0
    /\ attempted = <<>>
    /\ ext = NoExtraction
    /\ cycle = NoCycle

BrowserInit == PassIdle /\ BrowserIdle /\ FnIdle /\ StoreIdle /\ SaveIdle

\* driver.quit(): it returns, or it raises with the session closed or not
QuitOutcomes == {"closed", "raised_closed", "raised_live"}

\* the live sessions after quit() of session d ended as q
AfterQuit(live, d, q) == IF q = "raised_live" THEN live ELSE live \ {d}

\* get_product_info up to its first use of the browser: an invalid URL
\* raises; a short link is resolved by a HEAD request or, failing that, by
\* the browser; then the browser strategy sets up its browser
BeginCall ==
    /\ bpc = "idle"
    /\ \E url \in StoredUrls, head_resolves \in BOOLEAN :
        IF ~is_valid_url(url)
        THEN /\ bpc' = "idle"
             /\ caller' = NoneStr
        ELSE IF IsShortUrl(url) /\ ~head_resolves
             THEN /\ bpc' = IF driver = 0 THEN "quit_old" ELSE "resolve"
                  /\ caller' = "normalize_url"
             ELSE /\ bpc' = "quit_old"
                  /\ caller' = "get_product_info"
    /\ local_driver' = 0
    /\ UNCHANGED <<driver, liveSessions, created, outsideBrowser>>

\* _setup_browser, first lines: the driver kept in self.driver is quit, any
\* error ignored; self.driver keeps its value
QuitOld ==
    /\ bpc = "quit_old"
    /\ IF driver # 0
       THEN \E q \in QuitOutcomes : liveSessions' = AfterQuit(liveSessions, driver, q)
       ELSE liveSessions' = liveSessions
    /\ bpc' = "start"
    /\ UNCHANGED <<driver, created, caller, local_driver, outsideBrowser>>

\* where the caller of _setup_browser goes on when it raised: normalize_url
\* returns the URL as it is and the browser strategy sets up its browser;
\* the browser strategy ends in its finally clause
AfterSetupRaised(c) == IF c = "normalize_url" THEN "quit_old" ELSE "finally"

\* _setup_browser, webdriver.Chrome(...): a new session, or both ways of
\* starting it fail and _setup_browser raises
StartDriver ==
    /\ bpc = "start"
    /\ \/ /\ created < MaxSessions
          /\ created' = created + 1
          /\ liveSessions' = liveSessions \cup {created + 1}
          /\ local_driver' = created + 1
          /\ bpc' = "configure"
          /\ caller' = caller
       \/ /\ bpc' = AfterSetupRaised(caller)
          /\ caller' = "get_product_info"
          /\ UNCHANGED <<created, liveSessions, local_driver>>
    /\ UNCHANGED <<driver, outsideBrowser>>

\* _setup_browser, after the start: execute_script and, with a cookie file,
\* driver.get of the home page; either can raise, and only when both went
\* through is the new session put into self.driver
ConfigureDriver ==
    /\ bpc = "configure"
    /\ \/ /\ driver' = local_driver
          /\ bpc' = IF caller = "normalize_url" THEN "resolve" ELSE "navigate"
          /\ caller' = caller
       \/ /\ driver' = driver
          /\ bpc' = AfterSetupRaised(caller)
          /\ caller' = "get_product_info"
    /\ UNCHANGED <<liveSessions, created, local_driver, outsideBrowser>>

\* normalize_url, self.driver.get(url) of the short link: resolved or not,
\* the browser strategy sets up its own browser next
ResolveShortUrl ==
    /\ bpc = "resolve"
    /\ bpc' = "quit_old"
    /\ caller' = "get_product_info"
    /\ UNCHANGED <<driver, liveSessions, created, local_driver, outsideBrowser>>

\* the browser strategy with its browser: the page is loaded and read and
\* the result returned, or something raises; the finally clause follows
NavigateAndRead ==
    /\ bpc = "navigate"
    /\ bpc' = "finally"
    /\ UNCHANGED <<driver, liveSessions, created, caller, local_driver, outsideBrowser>>

\* the finally clause: self.driver is quit and set to None; when quit raises
\* the assignment is skipped.  The rest of the call uses no browser
FinallyQuit ==
    /\ bpc = "finally"
    /\ IF driver # 0
       THEN \E q \in QuitOutcomes :
               /\ liveSessions' = AfterQuit(liveSessions, driver, q)
               /\ driver' = IF q = "closed" THEN 0 ELSE driver
       ELSE UNCHANGED <<driver, liveSessions>>
    /\ bpc' = "idle"
    /\ caller' = NoneStr
    /\ local_driver' = 0
    /\ UNCHANGED <<created, outsideBrowser>>

BrowserNext ==
    \/ BeginCall
    \/ QuitOld
    \/ StartDriver
    \/ ConfigureDriver
    \/ ResolveShortUrl
    \/ NavigateAndRead
    \/ FinallyQuit

BrowserSpec == BrowserInit /\ [][BrowserNext]_vars

\* ------------------------------------------------ reading a loaded page
\* The price elements of a page in document order.  An element matches some
\* of the price selectors of the browser strategy, numbered as in its list:
\*   1 span.a-price span.a-offscreen   2 .a-price .a-offscreen
\*   3 #priceblock_ourprice            4 #priceblock_dealprice
\*   5 .a-color-price
\*   6 #corePriceDisplay_desktop_feature_div .a-price .a-offscreen
\*   7 .a-section .a-price .a-offscreen
\* It lies in the product's own block or in a block of other products
\* (sponsored, related, compared), and its text, the characters other than
\* digits and "." removed, is empty (None) or a number.
MainSelectorSets      == { {1, 2, 7}, {1, 2, 6, 7}, {3}, {5} }
SponsoredSelectorSets == { {1, 2, 7}, {5} }

ElementTexts == {NoneNum} \cup { Some(p) : p \in Prices }

PriceElements ==
    [sels : MainSelectorSets, container : {"main"}, text : ElementTexts]
    \cup [sels : SponsoredSelectorSets, container : {"sponsored"}, text : ElementTexts]

Pages == UNION { [1..n -> PriceElements] : n \in 0..MaxElements }

\* find_element / presence_of_element_located: the first element of the
\* document that matches selector k, 0 when there is none
FirstMatch(page, k) ==
    LET hits == { i \in 1..Len(page) : k \in page[i].sels }
    IN  IF hits = {} THEN 0 ELSE CHOOSE i \in hits : \A j \in hits : i <= j

\* the loop over price_selectors from selector k on, price and src being
\* the price assigned so far and the element it was read from
RECURSIVE ScanSelectors(_, _, _, _)
ScanSelectors(page, k, price, src) ==
    IF k > PriceSelectorCount
    THEN [price |-> price, src |-> src]
    ELSE LET i == FirstMatch(page, k)
         IN  IF i = 0 \/ page[i].text = NoneNum
             THEN ScanSelectors(page, k + 1, price, src)
             ELSE IF Val(page[i].text) > 0
                  THEN [price |-> Val(page[i].text), src |-> i]
                  ELSE ScanSelectors(page, k + 1, Val(page[i].text), i)

\* the selectors of the JavaScript fallback of the browser strategy
JsSelectors == {2, 3, 4, 5}

\* the price part of the browser strategy: the selector loop, then the
\* JavaScript fallback, which takes the first element with a digit
SeleniumPrice(page) ==
    LET scan == ScanSelectors(page, 1, 0, 0)
        js   == { i \in 1..Len(page) :
                    page[i].sels \cap JsSelectors # {} /\ page[i].text # NoneNum }
    IN  IF scan.price > 0 \/ js = {}
        THEN scan
        ELSE LET i == CHOOSE i \in js : \A j \in js : i <= j
             IN  [price |-> Val(page[i].text), src |-> i]

\* the selectors of soup.select in _try_api_endpoint
ApiSelectors == {2, 3, 5}

\* the price loop of _try_api_endpoint from element i on
RECURSIVE ScanElements(_, _, _, _)
ScanElements(page, i, price, src) ==
    IF i > Len(page)
    THEN [price |-> price, src |-> src]
    ELSE IF page[i].sels \cap ApiSelectors = {} \/ page[i].text = NoneNum
         THEN ScanElements(page, i + 1, price, src)
         ELSE IF Val(page[i].text) > 0
              THEN [price |-> Val(page[i].text), src |-> i]
              ELSE ScanElements(page, i + 1, Val(page[i].text), i)

ApiPrice(page) == ScanElements(page, 1, 0, 0)

\* ------------------------------------------------------- price texts
\* A price text is a sequence of characters: a currency prefix ("₹", "Rs. "
\* or none) and a body of digits, "," and ".".  A number is the fraction
\* num / den.
Digits       == {"0", "1", "9"}
DigitVal(c)  == IF c = "0" THEN 0 ELSE IF c = "1" THEN 1 ELSE 9
BodyChars    == Digits \cup {",", "."}
TextPrefixes == { <<>>, <<"₹">>, <<"R", "s", ".", " ">> }
TextBodies   == UNION { [1..n -> BodyChars] : n \in 0..MaxTextLen }

RECURSIVE Pow10(_)
Pow10(k) == IF k = 0 THEN 1 ELSE 10 * Pow10(k - 1)

\* int() of a sequence of digits
RECURSIVE DigitsValue(_)
DigitsValue(ds) ==
    IF ds = <<>> THEN 0
    ELSE 10 * DigitsValue(SubSeq(ds, 1, Len(ds) - 1)) + DigitVal(ds[Len(ds)])

\* re.sub(r'[^\d.]', '', price_str)
KeepDigitsAndDots(str) == SelectSeq(str, LAMBDA c : c \in Digits \cup {"."})

\* float(str) of a string of digits and dots: a ValueError unless there is
\* a digit and at most one dot
FloatRaises(str) ==
    \/ Cardinality({ i \in 1..Len(str) : str[i] = "." }) > 1
    \/ \A i \in 1..Len(str) : str[i] = "."

Float(str) ==
    LET dots == { i \in 1..Len(str) : str[i] = "." }
        dot  == IF dots = {} THEN Len(str) ELSE CHOOSE i \in dots : TRUE
    IN  [num |-> DigitsValue(SelectSeq(str, LAMBDA c : c # ".")),
         den |-> Pow10(Len(str) - dot)]

Zero == [num |-> 0, den |-> 1]

\* PriceTracker._extract_price; the browser strategy parses a price text
\* the same way
_extract_price(price_str) ==
    IF price_str = <<>> THEN Zero
    ELSE LET kept == KeepDigitsAndDots(price_str)
         IN  IF FloatRaises(kept) THEN Zero ELSE Float(kept)

\* ------------------------------------------------------ page verification
\* what _verify_product_page looks at in a parsed page: the search-result
\* markers, the "not found" phrases, the category markers, div#dp, the other
\* product containers, and whether the expected ASIN occurs on the page
Soups == [search : BOOLEAN, notFound : BOOLEAN, category : BOOLEAN,
          dp : BOOLEAN, productOther : BOOLEAN, asinOnPage : BOOLEAN]

VerifyUrls == {UrlProduct, UrlShort, UrlCart, UrlLanding}

_verify_product_page(soup, url) ==
    LET expected_asin == _extract_asin(url)
        page_asin     == IF soup.asinOnPage THEN expected_asin ELSE NoneStr
    IN  IF expected_asin = NoneStr THEN TRUE
        ELSE IF soup.search THEN FALSE
        ELSE IF soup.notFound THEN FALSE
        ELSE IF soup.category /\ ~soup.dp THEN FALSE
        ELSE IF (soup.dp \/ soup.productOther) /\ page_asin # NoneStr
             THEN page_asin = expected_asin
        ELSE TRUE

\* ------------------------------------------------------------ stock flag
\* texts of the "#availability span" elements of an Amazon page
AvailabilityTexts == {"in stock", "only 2 left in stock", "currently unavailable",
                      "out of stock", "not in stock"}
OutOfStockTexts   == {"currently unavailable", "out of stock", "not in stock"}

\* the "#availability span" elements found, or find_elements raising
AmazonStockPages ==
    [raised : {TRUE}, spans : {<<>>}]
    \cup [raised : {FALSE},
          spans  : UNION { [1..n -> AvailabilityTexts] : n \in 0..MaxElements }]

\* get_product_info, browser strategy: in_stock starts True and becomes False
\* only on an availability text that says out of stock
AmazonInStock(pg) ==
    IF pg.raised THEN TRUE
    ELSE ~ \E i \in 1..Len(pg.spans) : pg.spans[i] \in OutOfStockTexts

\* what _check_stock_status_selenium looks at in a Flipkart page: an
\* out-of-stock element, a sold-out phrase in the page text, a buy button,
\* a buy button whose text has add/cart/buy, a price pattern in the source
FlipkartStockPages ==
    { pg \in [raised : BOOLEAN, outOfStockElement : BOOLEAN, soldOutText : BOOLEAN,
              buyButton : BOOLEAN, buyButtonText : BOOLEAN, pricePattern : BOOLEAN] :
        /\ pg.buyButtonText => pg.buyButton
        /\ pg.outOfStockElement => pg.soldOutText
        /\ pg.raised => ~(pg.outOfStockElement \/ pg.soldOutText \/ pg.buyButton
                            \/ pg.pricePattern) }

_check_stock_status_selenium(pg) ==
    IF pg.raised THEN FALSE
    ELSE IF pg.outOfStockElement THEN FALSE
    ELSE IF pg.soldOutText /\ ~pg.buyButton THEN FALSE
    ELSE IF pg.buyButtonText THEN TRUE
    ELSE IF pg.pricePattern THEN TRUE
    ELSE FALSE

\* no stock signal on the page: no unavailability block or phrase, no
\* purchase control
NoStockSignal(a) ==
    IF a.kind = "stock_amazon"
    THEN \A i \in 1..Len(a.page.spans) : a.page.spans[i] \notin AvailabilityTexts
    ELSE ~a.page.outOfStockElement /\ ~a.page.soldOutText /\ ~a.page.buyButton

\* the URLs is_valid_url is applied to
ValidityUrls == {UrlProduct, UrlShort, UrlCart, UrlLanding, UrlOther, UrlLookalike}

\* the offer text _extract_price_info_selenium reads from the first offer
\* element of a Flipkart page into the 'coupon' key: absent, empty or a text
CouponTexts == {NoneStr, "", "Bank Offer"}

\* the coupon a product of products.json carries
StoredCoupons == {NoneStr, "Bank Offer"}

\* a tracker result that carries the 'coupon' key, as
\* FlipkartPriceTracker.get_product_info builds it for a loaded page; the
\* Amazon tracker, the only one TrackerManager registers, reports no coupon
FlipkartResult(price, coupon) ==
    [status |-> "returned", error |-> ErrNone,
     info |-> [title |-> "Page Title", price |-> Some(price), in_stock |-> TRUE,
               coupon |-> coupon, url |-> UrlProduct]]

\* the products and fetched pages check_price_and_coupon is applied to
CouponChecks ==
    { [kind |-> "coupon",
       product |-> [NewProduct(1, UrlProduct, t) EXCEPT !.coupon = c],
       fetched |-> FlipkartResult(p, k), email |-> e, telegram |-> g] :
            t \in 1..MaxTarget, c \in StoredCoupons, p \in Prices,
            k \in CouponTexts, e \in EmailOutcomes, g \in TelegramOutcomes }

\* the arguments the functions are applied to
FnInputs ==
    { [kind |-> "page", page |-> pg] : pg \in Pages }
    \cup { [kind |-> "price_text", prefix |-> pre, body |-> b] :
                pre \in TextPrefixes, b \in TextBodies }
    \cup { [kind |-> "verify", soup |-> sp, url |-> u] :
                sp \in Soups, u \in VerifyUrls }
    \cup { [kind |-> "url", url |-> u] : u \in ValidityUrls }
    \cup { [kind |-> "stock_amazon", page |-> pg] : pg \in AmazonStockPages }
    \cup { [kind |-> "stock_flipkart", page |-> pg] : pg \in FlipkartStockPages }
    \cup CouponChecks

FnInit ==
    /\ PassIdle
    /\ BrowserIdle
    /\ StoreIdle
    /\ SaveIdle
    /\ arg \in FnInputs
    /\ ret = NoRet

ReadPriceSelenium ==
    /\ arg.kind = "page"
    /\ ret = NoRet
    /\ ret' = [op |-> "selenium_price", price |-> SeleniumPrice(arg.page).price,
               src |-> SeleniumPrice(arg.page).src]
    /\ UNCHANGED <<arg, outsideFn>>

ReadPriceApi ==
    /\ arg.kind = "page"
    /\ ret = NoRet
    /\ ret' = [op |-> "api_price", price |-> ApiPrice(arg.page).price,
               src |-> ApiPrice(arg.page).src]
    /\ UNCHANGED <<arg, outsideFn>>

ParsePrice ==
    /\ arg.kind = "price_text"
    /\ ret = NoRet
    /\ ret' = [op |-> "extract_price", value |-> _extract_price(arg.prefix \o arg.body)]
    /\ UNCHANGED <<arg, outsideFn>>

VerifyPage ==
    /\ arg.kind = "verify"
    /\ ret = NoRet
    /\ ret' = [op |-> "verify_product_page",
               value |-> _verify_product_page(arg.soup, arg.url)]
    /\ UNCHANGED <<arg, outsideFn>>

CheckStockAmazon ==
    /\ arg.kind = "stock_amazon"
    /\ ret = NoRet
    /\ ret' = [op |-> "in_stock", value |-> AmazonInStock(arg.page)]
    /\ UNCHANGED <<arg, outsideFn>>

CheckStockFlipkart ==
    /\ arg.kind = "stock_flipkart"
    /\ ret = NoRet
    /\ ret' = [op |-> "in_stock", value |-> _check_stock_status_selenium(arg.page)]
    /\ UNCHANGED <<arg, outsideFn>>

CheckUrl ==
    /\ arg.kind = "url"
    /\ ret = NoRet
    /\ ret' = [op |-> "is_valid_url", value |-> is_valid_url(arg.url)]
    /\ UNCHANGED <<arg, outsideFn>>

\* check_price_and_coupon on one product: check_price_drop, then the
\* notifications and the updates handed back to check_all_products
CheckCoupon ==
    /\ arg.kind = "coupon"
    /\ ret = NoRet
    /\ LET result == check_price_drop(arg.product, arg.fetched)
           cpc    == check_price_and_coupon(arg.product, result,
                                            arg.email, arg.telegram)
       IN  ret' = [op |-> "check_price_and_coupon", result |-> result,
                   returned |-> cpc.returned, updates |-> cpc.updates,
                   notes |-> cpc.notes]
    /\ UNCHANGED <<arg, outsideFn>>

FnNext ==
    \/ ReadPriceSelenium
    \/ ReadPriceApi
    \/ ParsePrice
    \/ VerifyPage
    \/ CheckStockAmazon
    \/ CheckStockFlipkart
    \/ CheckUrl
    \/ CheckCoupon

FnSpec == FnInit /\ [][FnNext]_vars

\* ------------------------------------------- the bot and the supervisor
\* the users who send commands: the admin and someone else
Users == {ADMIN_USER_ID, ADMIN_USER_ID + 1}

\* every user taken for the admin
is_admin_Anyone(user_id) == TRUE

is_admin(user_id) == user_id = ADMIN_USER_ID

\* the update the bot handles now: its sender, and the bit flipped
Handled(user) == [user |-> user, seq |-> 1 - last_update.seq]

\* a supervisor that never starts the processes again
should_restart_Never(restart_exists) == FALSE

\* main(), finally: should_restart = os.path.exists('.restart')
should_restart(restart_exists) == restart_exists

\* the first arguments of /add: a URL, and the text of a price
BotUrlArgs   == {UrlProduct, UrlCart, UrlOther}
BotPriceArgs == {"abc", "-1", "0", "1"}

\* float(context.args[1]): None stands for ValueError
PyFloat(text) ==
    CASE text = "-1" -> Some(0 - 1)
      [] text = "0"  -> Some(0)
      [] text = "1"  -> Some(1)
      [] OTHER       -> NoneNum

AmazonTlds == {"com", "in", "de", "fr", "es", "it", "nl", "pl", "ae", "sa", "cn"}

\* re.match(amazon_pattern, url): the scheme, an optional "www.", then
\* amazon.<tld>, a.co, amzn.to or amzn.in at the start of the host; nothing
\* after the host is looked at
amazon_pattern(url) ==
    LET host == IF Len(url.netloc) > 0 /\ url.netloc[1] = "www"
                THEN Tail(url.netloc) ELSE url.netloc
    IN  /\ Len(host) >= 2
        /\ \/ host[1] = "amazon" /\ host[2] \in AmazonTlds
           \/ host[1] = "amazon" /\ host[2] = "co" /\ Len(host) >= 3
                /\ host[3] \in {"uk", "jp"}
           \/ <<host[1], host[2]>> \in { <<"a", "co">>, <<"amzn", "to">>,
                                         <<"amzn", "in">> }

\* ProductManager.add_product: the product under a fresh id
add_product(ps, i, u, t) ==
    [k \in DOMAIN ps \cup {i} |-> IF k = i THEN NewProduct(i, u, t) ELSE ps[k]]

\* ProductManager.remove_product
remove_product(ps, i) == [k \in DOMAIN ps \ {i} |-> ps[k]]

StoreInit == PassIdle /\ BrowserIdle /\ FnIdle /\ StoreIdle /\ SaveIdle

\* main(): the start of the restart loop removes .restart and starts the
\* two processes, each of which loads products.json into its own manager;
\* the tracker process has its initial run ahead
Main ==
    /\ app = "down"
    /\ app' = "running"
    /\ restart_file' = FALSE
    /\ bot_alive' = TRUE
    /\ tpc' = "due"
    /\ tracker_products' = products_json
    /\ bot_products' = products_json
    /\ monitor_exit' = "none"
    /\ UNCHANGED <<products_json, snapshot, next_id, reply, email_alerts, last_update>>
    /\ UNCHANGED outsideStore

\* main(), finally: both processes are terminated; when .restart exists it
\* is removed and the restart loop goes on (continue), which starts the two
\* processes again, else the application shuts down
Finally ==
    /\ IF should_restart(restart_file)
       THEN /\ app' = "running"
            /\ bot_alive' = TRUE
            /\ tpc' = "due"
            /\ tracker_products' = products_json
            /\ bot_products' = products_json
            /\ restart_file' = FALSE
       ELSE /\ app' = "down"
            /\ bot_alive' = FALSE
            /\ tpc' = "dead"
            /\ UNCHANGED <<tracker_products, bot_products, restart_file>>
    /\ UNCHANGED <<products_json, snapshot, next_id, reply, email_alerts, last_update>>
    /\ UNCHANGED outsideStore

\* main(), the monitoring loop ends when a process has died or .restart
\* exists; a bot that has written .restart and stopped may be found dead, or
\* .restart may be found first
Supervise ==
    /\ app = "running"
    /\ ~bot_alive \/ tpc = "dead" \/ restart_file
    /\ monitor_exit' \in
            (IF ~bot_alive \/ tpc = "dead" THEN {"died"} ELSE {})
            \cup (IF restart_file THEN {"restart"} ELSE {})
    /\ Finally

\* main(): KeyboardInterrupt in the monitoring loop; the handler breaks, and
\* the finally block runs as after any other end of the loop
Interrupt ==
    /\ app = "running"
    /\ monitor_exit' = "interrupt"
    /\ Finally

\* the /add command of the bot
BotAddOf(urls, texts) ==
    /\ bot_alive
    /\ \E user \in Users, nargs \in {1, 2}, url \in urls,
          text \in texts, restart_written \in BOOLEAN :
        LET target_price == PyFloat(text)
        IN  /\ last_update' = Handled(user)
            /\ IF ~is_admin(user)
               THEN /\ reply' = "not authorized"
                    /\ UNCHANGED <<products_json, bot_products, restart_file,
                                   bot_alive, next_id>>
               ELSE IF nargs < 2
               THEN /\ reply' = "usage"
                    /\ UNCHANGED <<products_json, bot_products, restart_file,
                                   bot_alive, next_id>>
               ELSE IF target_price = NoneNum
               THEN /\ reply' = "invalid price"
                    /\ UNCHANGED <<products_json, bot_products, restart_file,
                                   bot_alive, next_id>>
               ELSE IF ~amazon_pattern(url)
               THEN /\ reply' = "invalid url"
                    /\ UNCHANGED <<products_json, bot_products, restart_file,
                                   bot_alive, next_id>>
               ELSE /\ next_id <= MaxItems
                    /\ bot_products' = add_product(bot_products, next_id, url,
                                                   Val(target_price))
                    /\ products_json' = bot_products'
                    /\ next_id' = next_id + 1
                    /\ reply' = "added"
                    /\ restart_file' = (restart_file \/ restart_written)
                    /\ bot_alive' = FALSE
    /\ UNCHANGED <<tracker_products, app, tpc, snapshot, email_alerts, monitor_exit>>
    /\ UNCHANGED outsideStore

BotAdd == BotAddOf(BotUrlArgs, BotPriceArgs)

\* the /add command with a product page and a price above 0
BotAddProduct == BotAddOf({UrlProduct}, {"1"})

\* the /remove command of the bot
BotRemove ==
    /\ bot_alive
    /\ \E user \in Users, product_id \in Ids, restart_written \in BOOLEAN :
        /\ last_update' = Handled(user)
        /\ IF ~is_admin(user)
           THEN /\ reply' = "not authorized"
                /\ UNCHANGED <<products_json, bot_products, restart_file, bot_alive>>
           ELSE IF product_id \notin DOMAIN bot_products
           THEN /\ reply' = "not found"
                /\ UNCHANGED <<products_json, bot_products, restart_file, bot_alive>>
           ELSE /\ bot_products' = remove_product(bot_products, product_id)
                /\ products_json' = bot_products'
                /\ reply' = "removed"
                /\ restart_file' = (restart_file \/ restart_written)
                /\ bot_alive' = FALSE
    /\ UNCHANGED <<tracker_products, app, tpc, snapshot, next_id, email_alerts,
                   monitor_exit>>
    /\ UNCHANGED outsideStore

\* the /restart command of the bot: the bot stops once .restart is written
BotRestart ==
    /\ bot_alive
    /\ \E user \in Users, restart_written \in BOOLEAN :
        /\ last_update' = Handled(user)
        /\ IF ~is_admin(user)
           THEN /\ reply' = "not authorized"
                /\ UNCHANGED <<restart_file, bot_alive>>
           ELSE IF ~restart_written
           THEN /\ reply' = "restart failed"
                /\ UNCHANGED <<restart_file, bot_alive>>
           ELSE /\ reply' = "restarting"
                /\ restart_file' = TRUE
                /\ bot_alive' = FALSE
    /\ UNCHANGED <<products_json, bot_products, tracker_products, app, tpc,
                   snapshot, next_id, email_alerts, monitor_exit>>
    /\ UNCHANGED outsideStore

\* the /alertson and /alertsoff commands of the bot:
\* update_global_email_alerts writes config.env, or fails to
BotAlerts ==
    /\ bot_alive
    /\ \E user \in Users, enabled \in BOOLEAN, config_written \in BOOLEAN :
        /\ last_update' = Handled(user)
        /\ IF ~is_admin(user)
           THEN /\ reply' = "not authorized"
                /\ UNCHANGED email_alerts
           ELSE IF ~config_written
           THEN /\ reply' = "alerts failed"
                /\ UNCHANGED email_alerts
           ELSE /\ reply' = IF enabled THEN "alerts enabled" ELSE "alerts disabled"
                /\ email_alerts' = enabled
    /\ UNCHANGED <<products_json, bot_products, tracker_products, restart_file,
                   app, bot_alive, tpc, snapshot, next_id, monitor_exit>>
    /\ UNCHANGED outsideStore

\* run_tracker: the initial run or a scheduled run of check_all_products
\* begins with the products of the process's own manager
BeginPass ==
    /\ tpc \in {"due", "wait"}
    /\ snapshot' = DOMAIN tracker_products
    /\ tpc' = "pass"
    /\ UNCHANGED <<products_json, bot_products, tracker_products, restart_file,
                   app, bot_alive, next_id, reply, email_alerts, monitor_exit,
                   last_update>>
    /\ UNCHANGED outsideStore

\* the end of the run: when an item's observed state was stored,
\* update_product has saved the manager's products to products.json
EndPass ==
    /\ tpc = "pass"
    /\ \E stored \in BOOLEAN :
        products_json' = IF stored /\ snapshot # {} THEN tracker_products
                         ELSE products_json
    /\ tpc' = "wait"
    /\ UNCHANGED <<bot_products, tracker_products, restart_file, app, bot_alive,
                   snapshot, next_id, reply, email_alerts, monitor_exit,
                   last_update>>
    /\ UNCHANGED outsideStore

\* the store under the bot's /add and /remove and the tracker's runs
StoreNext ==
    \/ Main
    \/ Supervise
    \/ BotAdd
    \/ BotRemove
    \/ BeginPass
    \/ EndPass

StoreSpec == StoreInit /\ [][StoreNext]_vars

\* the supervisor with its two processes: every command of the bot that
\* changes state, the tracker's runs, and a keyboard interrupt
SupervisorNext ==
    \/ Main
    \/ Supervise
    \/ Interrupt
    \/ BotAddProduct
    \/ BotRemove
    \/ BotRestart
    \/ BotAlerts
    \/ BeginPass
    \/ EndPass

SupervisorSpec == StoreInit /\ [][SupervisorNext]_vars

\* the supervisor's monitoring loop looks at its processes and at .restart
\* every 5 seconds
SupervisorFairSpec == SupervisorSpec /\ WF_vars(Supervise)

\* ------------------------------------------------ the save of products.json
\* the processes that save products.json: the tracker process (main.py
\* ProductManager) and the bot process (product_manager.py ProductManager)
Savers == {"tracker", "bot"}

\* json.dump of the record set of who, n bytes long
Serialised(who, n) == [k \in 1..n |-> <<who, k>>]

\* the complete record set that products.json holds before any save
PreviousContent == Serialised("previous", 1)

\* a byte of a file that no write has filled
Hole == <<"hole", 0>>

\* a write of byte b at offset off of a file with content c
WriteAt(c, off, b) ==
    IF off + 1 <= Len(c)
    THEN [c EXCEPT ![off + 1] = b]
    ELSE c \o [k \in 1..(off - Len(c)) |-> Hole] \o <<b>>

SaveInit ==
    /\ PassIdle /\ BrowserIdle /\ FnIdle /\ StoreIdle
    /\ names = [json |-> 1, tmp |-> 0]
    /\ inodes = <<PreviousContent>>
    /\ savers \in [Savers -> [pc : {"idle"}, fd : {0}, off : {0}, len : 1..MaxFileLen]]

\* open(temp_file, 'w'): the file products.json.tmp is created, or, when it
\* exists, truncated
OpenTemp(p) ==
    /\ savers[p].pc = "idle"
    /\ IF names.tmp # 0
       THEN /\ inodes' = [inodes EXCEPT ![names.tmp] = <<>>]
            /\ savers' = [savers EXCEPT ![p].pc = "write", ![p].fd = names.tmp,
                                        ![p].off = 0]
            /\ UNCHANGED names
       ELSE /\ inodes' = Append(inodes, <<>>)
            /\ names' = [names EXCEPT !.tmp = Len(inodes) + 1]
            /\ savers' = [savers EXCEPT ![p].pc = "write",
                                        ![p].fd = Len(inodes) + 1, ![p].off = 0]
    /\ UNCHANGED outsideSave

\* json.dump: the next byte of the process's record set reaches the open file
WriteTemp(p) ==
    /\ savers[p].pc = "write"
    /\ savers[p].off < savers[p].len
    /\ inodes' = [inodes EXCEPT ![savers[p].fd] =
                    WriteAt(@, savers[p].off, <<p, savers[p].off + 1>>)]
    /\ savers' = [savers EXCEPT ![p].off = @ + 1]
    /\ UNCHANGED names
    /\ UNCHANGED outsideSave

\* the end of the with block
CloseTemp(p) ==
    /\ savers[p].pc = "write"
    /\ savers[p].off = savers[p].len
    /\ savers' = [savers EXCEPT ![p].pc = "replace"]
    /\ UNCHANGED <<names, inodes>>
    /\ UNCHANGED outsideSave

\* os.replace(temp_file, self.filename); with no products.json.tmp it raises
\* and the handler finds no temporary file to remove
ReplaceFile(p) ==
    /\ savers[p].pc = "replace"
    /\ IF names.tmp = 0
       THEN /\ savers' = [savers EXCEPT ![p].pc = "failed"]
            /\ UNCHANGED names
       ELSE /\ names' = [json |-> names.tmp, tmp |-> 0]
            /\ savers' = [savers EXCEPT ![p].pc = "done"]
    /\ UNCHANGED inodes
    /\ UNCHANGED outsideSave

\* the process is killed in the middle of its save
Crash(p) ==
    /\ savers[p].pc \in {"write", "replace"}
    /\ savers' = [savers EXCEPT ![p].pc = "crashed"]
    /\ UNCHANGED <<names, inodes>>
    /\ UNCHANGED outsideSave

SaveNext ==
    \E p \in Savers :
        \/ OpenTemp(p)
        \/ WriteTemp(p)
        \/ CloseTemp(p)
        \/ ReplaceFile(p)
        \/ Crash(p)

SaveSpec == SaveInit /\ [][SaveNext]_vars

\* ------------------------------------------------------------ properties

\* C1: in every finished cycle, check_price_drop reports price_dropped
\* exactly when the current price is above 0, the target is above 0 and the
\* current price is at most the target: a price equal to the target is a
\* drop, a price of 0 never is.
C1_PriceDropDecision ==
    cycle.id # 0 =>
        LET c == cycle.current_price
            t == products[cycle.id].target_price
        IN  cycle.price_dropped <=>
                (c # NoneNum /\ Val(c) > 0 /\ t > 0 /\ Val(c) <= t)

\* C1, reached: a cycle whose price equals the target and is reported as a
\* drop.
C1_Witness ==
    /\ cycle.id # 0
    /\ cycle.price_dropped
    /\ Val(cycle.current_price) = products[cycle.id].target_price

\* C2, as claimed: a cycle whose extraction raised leaves a known positive
\* stored price of the item as it was.
C2_FailedCycleKeepsKnownPrice ==
    [][ (pc = "finish" /\ ext.status = "raised") =>
            LET id == Head(passList).id
            IN  (products[id].current_price # NoneNum
                    /\ Val(products[id].current_price) > 0)
                => products'[id].current_price = products[id].current_price
      ]_vars

\* C3: a cycle sends a price-drop notification only if its extraction
\* returned and its decision is true (price above 0, target above 0, price at
\* most the target); a cycle whose extraction failed sends none.
C3_NotificationOnlyOnDrop ==
    cycle.notes # <<>> =>
        LET c == cycle.current_price
            t == products[cycle.id].target_price
        IN  /\ cycle.extStatus = "returned"
            /\ cycle.price_dropped
            /\ Val(c) > 0 /\ t > 0 /\ Val(c) <= t
            /\ \A k \in 1..Len(cycle.notes) :
                cycle.notes[k].kind = "price_drop" /\ cycle.notes[k].id = cycle.id

\* C3, reached: a cycle that sent the price-drop notification on both
\* channels.
C3_Witness ==
    /\ Len(cycle.notes) = 1
    /\ cycle.notes[1].email = "sent"
    /\ cycle.notes[1].telegram = "sent"

\* C4: in a cycle whose extraction returned a price above 0 and at most the
\* item's target, the stored price of the item becomes the extracted price
\* and _send_price_drop_notification runs exactly once for the item.
C4_DropStoredAndNotifiedOnce ==
    (cycle.extStatus = "returned"
        /\ Val(cycle.current_price) > 0
        /\ Val(cycle.current_price) <= products[cycle.id].target_price)
    => /\ products[cycle.id].current_price = cycle.current_price
       /\ file[cycle.id].current_price = cycle.current_price
       /\ Len(cycle.notes) = 1
       /\ cycle.notes[1].kind = "price_drop"
       /\ cycle.notes[1].id = cycle.id
       /\ cycle.notes[1].price = cycle.current_price

\* C4, reached: a cycle that extracted a price below the target, stored it
\* and sent one notification.
C4_Witness ==
    /\ cycle.extStatus = "returned"
    /\ Val(cycle.current_price) > 0
    /\ Val(cycle.current_price) < products[cycle.id].target_price
    /\ products[cycle.id].current_price = cycle.current_price
    /\ Len(cycle.notes) = 1

\* C5: in a pass the items are attempted in the order of the pass, each
\* once: what has been attempted is always the pass up to the current item,
\* and when the pass ends it is the whole pass, whatever failed on the way.
C5_EveryItemAttemptedOnce ==
    /\ Len(attempted) <= Len(passIds)
    /\ \A k \in 1..Len(attempted) : attempted[k] = passIds[k]
    /\ \A j, k \in 1..Len(attempted) : attempted[j] = attempted[k] => j = k
    /\ pc = "idle" => attempted = passIds
    /\ pc = "item" => Len(attempted) = idx - 1
    /\ pc \notin {"idle", "item"} => Len(attempted) = idx

\* C5, reached: the end of a pass over a full store whose first item failed
\* (its URL is rejected) and whose last item was attempted all the same.
C5_Witness ==
    /\ pc = "idle"
    /\ Len(passIds) = MaxItems
    /\ attempted = passIds
    /\ ~is_valid_url(products[passIds[1]].url)
    /\ cycle.id = passIds[MaxItems]

C7_FixedOrderFirstSuccess ==
    LET order == <<"selenium", "api1", "api2", "api3", "api4">>
        n     == Len(ext.tried)
    IN  /\ n <= Len(order)
        /\ \A k \in 1..n : ext.tried[k] = order[k]
        /\ n > 0 => ext.last.strategy = ext.tried[n]
        /\ (n > 0 /\ ext.last.ok) <=> ext.status = "returned"
        /\ ext.status = "returned"
            => /\ pc = "finish"
               /\ ext.info.title = ext.last.title
               /\ Val(ext.info.price) = ext.last.price
        /\ pc \in {"selenium", "api"} => (n > 0 => ~ext.last.ok)

\* C7, reached: the third alternate endpoint succeeded after the browser and
\* two endpoints had failed, and its result is the one returned.
C7_Witness ==
    /\ ext.status = "returned"
    /\ ext.tried = <<"selenium", "api1", "api2", "api3">>
    /\ ext.last.ok
    /\ pc = "finish"

\* C8, as claimed: the extraction never returns a result without a positive
\* price, unless the result says the item is out of stock.
C8_PricelessNeverReturned ==
    ext.status = "returned" =>
        (Val(ext.info.price) > 0 \/ ~ext.info.in_stock)

\* C8, amended: a strategy fails softly, and the next one is tried, only
\* when the browser or its navigation raises, or when an alternate endpoint
\* raises, answers another status than 200 or shows no title.  A page the
\* browser loaded is read and its result returned whatever it shows (price 0
\* when no price was found), and an endpoint page with a title is returned
\* with price 0 when it shows no price.
C8_PartialResultReturned ==
    ext.tried # <<>> =>
        LET a    == ext.last
            soft == \/ a.kind # "page"
                    \/ (a.strategy # "selenium" /\ a.title \in {NoneStr, ""})
        IN  /\ soft => ext.status \in {"running", "raised"}
            /\ ~soft => /\ ext.status = "returned"
                        /\ ext.info.title = a.title
                        /\ Val(ext.info.price) = a.price

\* C8, reached: the browser read a page in stock without a price and its
\* result, price 0, is what the extraction returned.
C8_Witness ==
    /\ ext.status = "returned"
    /\ ext.tried = <<"selenium">>
    /\ Val(ext.info.price) = 0
    /\ ext.info.in_stock

\* C9, as claimed: no result read from a page that was detected as a bot
\* challenge is returned by the extraction.
C9_NoResultFromChallengePage ==
    ext.status = "returned" => ~ext.last.captcha

\* C11: when the browser cannot be started, the browser strategy fails once
\* for the call: get_product_info goes on to the alternate endpoints, or to
\* its final error when the URL has no ASIN, and the polling loop goes on with
\* the next item when the call raised.
C11_BrowserStartFailureFallsThrough ==
    [][ /\ (pc = "selenium" /\ ext'.last.kind = "nostart")
            => /\ pc' = "api"
               /\ ext'.tried = <<"selenium">>
               /\ ext'.status = "running"
        /\ (pc = "api" /\ ext.last.kind = "nostart" /\ ext' # ext)
            => \/ ext'.last.strategy = "api1"
               \/ (ext'.status = "raised" /\ ext'.error = ErrExhausted
                        /\ ext'.tried = <<"selenium">> /\ pc' = "finish")
        /\ (pc = "finish" /\ ext.status = "raised")
            => (idx' = idx + 1 /\ pc' \in {"item", "idle"})
      ]_vars

\* C11, reached: the browser could not be started, the URL has no ASIN for
\* the alternate endpoints, and the call ended in its final error.
C11_Witness ==
    /\ pc = "finish"
    /\ ext.status = "raised"
    /\ ext.last.kind = "nostart"
    /\ ext.tried = <<"selenium">>

\* C12, as claimed: the browser sessions that are live never outnumber the
\* one slot the tracker has for them.
C12_LiveSessionsBounded ==
    Cardinality(liveSessions) <= DriverSlots

\* C13, as claimed: a price read from a page never comes from an element
\* inside a block of sponsored or related products.
C13_NoPriceFromSponsoredBlock ==
    (ret.op \in {"selenium_price", "api_price"} /\ ret.price > 0)
        => arg.page[ret.src].container # "sponsored"

\* C14, as claimed: for a price text made of a currency prefix ("₹", "Rs. "
\* or none) and a number written with digits, "," between groups of digits
\* and at most one "." before its decimals, the parser returns that number
\* when it is positive, and nothing positive otherwise.
C14_ParserReturnsTheNumber ==
    (ret.op = "extract_price"
        /\ arg.body # <<>>
        /\ arg.body[1] \in Digits
        /\ arg.body[Len(arg.body)] \in Digits
        /\ Cardinality({ i \in 1..Len(arg.body) : arg.body[i] = "." }) <= 1
        /\ \A i \in 1..Len(arg.body) : \A j \in 1..Len(arg.body) :
              (arg.body[i] = "." /\ arg.body[j] = ",") => j < i)
    => LET b    == arg.body
           dots == { i \in 1..Len(b) : b[i] = "." }
           dot  == IF dots = {} THEN Len(b) + 1 ELSE CHOOSE i \in dots : TRUE
           whole == DigitsValue(SelectSeq(SubSeq(b, 1, dot - 1), LAMBDA c : c \in Digits))
           decs  == SubSeq(b, dot + 1, Len(b))
       IN  ret.value.num * Pow10(Len(decs))
               = (whole * Pow10(Len(decs)) + DigitsValue(decs)) * ret.value.den

\* C15: a page that shows search-result markers and has no product container
\* is classified as a wrong page (page verification returns False), whatever
\* the requested URL is, including a URL with no extractable ASIN.
C15_SearchPageIsWrongPage ==
    (ret.op = "verify_product_page" /\ arg.soup.search
        /\ ~arg.soup.dp /\ ~arg.soup.productOther)
        => ret.value = FALSE

\* C16: when no stock signal fires on a page, the stock flag read from it is
\* True, in the Amazon adapter and in the Flipkart adapter.
C16_NoSignalMeansInStock ==
    (ret.op = "in_stock" /\ NoStockSignal(arg)) => ret.value = TRUE

C18_StoredUrlsAreValid ==
    \A i \in DOMAIN products_json : is_valid_url(products_json[i].url)

\* C19: every product in products.json has a target price above 0.
C19_StoredTargetsArePositive ==
    \A i \in DOMAIN products_json : products_json[i].target_price > 0

\* C20: every run of check_all_products that follows another one begins
\* with the products that products.json holds at that moment: a product
\* added or removed by the bot since the run before is in it, respectively
\* not in it.
C20_PassBeginsWithStoredItems ==
    [][ (tpc = "wait" /\ tpc' = "pass") => snapshot' = DOMAIN products_json ]_vars

\* C10, as claimed: after a 5xx answer the strategy that met it is the one
\* tried next.
C10_RetriedAfter5xx ==
    [][ (ext.last.kind = "status5xx" /\ ext' # ext)
            => /\ Len(ext'.tried) = Len(ext.tried) + 1
               /\ ext'.last.strategy = ext.last.strategy
      ]_vars

\* C21: at every moment, whatever the point at which a saving process is
\* killed and also when the tracker process and the bot process save at the
\* same time, products.json holds a complete record set: the previous one or
\* the complete one of a process that saved.
C21_ProductsFileComplete ==
    /\ names.json # 0
    /\ \/ inodes[names.json] = PreviousContent
       \/ \E p \in Savers : inodes[names.json] = Serialised(p, savers[p].len)

C23_NotificationFailureNotFatal ==
    [][ (pc = "finish" /\ Len(cycle'.notes) > 0
            /\ (cycle'.notes[1].email = "failed" \/ cycle'.notes[1].telegram = "failed"))
        => /\ cycle'.stored
           /\ products'[cycle'.id].current_price = cycle'.current_price
           /\ file' = products'
           /\ idx' = idx + 1
           /\ pc' \in {"item", "idle"}
      ]_vars

C23_Witness ==
    /\ Len(cycle.notes) = 1
    /\ cycle.notes[1].email = "failed"
    /\ cycle.notes[1].telegram = "failed"
    /\ cycle.stored
    /\ pc = "item"

\* C24, as claimed: a price of 0 is never taken for a real price: no step
\* stores 0 over a known positive price of an item, whether the extraction
\* raised or returned a result without a price, and no cycle with an
\* observed price of 0 reports a price drop.
C24_ZeroNeverARealPrice ==
    [][ /\ \A i \in DOMAIN products :
              (products[i].current_price # NoneNum
                    /\ Val(products[i].current_price) > 0)
              => products'[i].current_price # Some(0)
        /\ cycle'.price_dropped => Val(cycle'.current_price) > 0
      ]_vars

\* C25, as claimed: is_valid_url accepts a URL only if its host is one of
\* AMAZON_DOMAINS, its path has a product shape and does not end in a cart,
\* wishlist or login path; a host that only has an Amazon domain inside
\* another domain is rejected.
C25_AcceptedUrlsAreOnTheAllowList ==
    (ret.op = "is_valid_url" /\ ret.value)
        => /\ arg.url.netloc \in AMAZON_DOMAINS
           /\ \/ PathHas(arg.url.path, <<"dp">>)
              \/ PathHas(arg.url.path, <<"gp", "product">>)
              \/ PathHas(arg.url.path, <<"d">>)
              \/ PathHas(arg.url.path, <<"product">>)
           /\ ~PathEndsWith(arg.url.path, <<"cart">>)
           /\ ~PathEndsWith(arg.url.path, <<"wishlist">>)
           /\ ~PathEndsWith(arg.url.path, <<"account", "login">>)

\* C26, as claimed: what the bot has saved is never undone by the tracker
\* process: a product leaves products.json only in the step of a /remove of
\* that product, and a product enters it only in the step of an /add.
C26_BotEditsAreNeverUndone ==
    [][ /\ \A i \in DOMAIN products_json \ DOMAIN products_json' :
              reply' = "removed" /\ ~bot_alive' /\ i \notin DOMAIN bot_products'
        /\ \A i \in DOMAIN products_json' \ DOMAIN products_json :
              reply' = "added" /\ ~bot_alive' /\ i \in DOMAIN bot_products'
      ]_vars

C28_InterruptShutsDown ==
    monitor_exit = "interrupt" => (app = "down" /\ ~bot_alive /\ tpc = "dead")

\* C29: a command of the bot sent by a user who is not the admin changes
\* neither products.json nor the bot's products, neither the e-mail alert
\* setting nor .restart, and does not stop the bot.
C29_NonAdminCommandsChangeNothing ==
    [][ (last_update'.seq # last_update.seq /\ last_update'.user # ADMIN_USER_ID)
            => /\ reply' = "not authorized"
               /\ UNCHANGED <<products_json, bot_products, tracker_products,
                              email_alerts, restart_file, bot_alive, next_id>>
      ]_vars

C29_Witness ==
    /\ last_update.user # ADMIN_USER_ID
    /\ last_update.seq = 0
    /\ reply = "not authorized"
    /\ DOMAIN products_json = {1}
    /\ ~email_alerts
    /\ bot_alive


\* C30: when the coupon of the fetched result is non-empty and differs from
\* the stored coupon and the price has not dropped, check_price_and_coupon
\* sends exactly one coupon notification and still returns the price and
\* title updates, so that the observed state is stored.
C30_CouponChangeIsNotifiedAndStored ==
    (/\ ret.op = "check_price_and_coupon"
     /\ Truthy(ret.result.coupon)
     /\ ret.result.coupon # arg.product.coupon
     /\ ~ret.result.price_dropped)
        => /\ ret.returned
           /\ ret.updates.current_price = ret.result.current_price
           /\ Len(SelectSeq(ret.notes, LAMBDA n : n.kind = "coupon")) = 1

====
